---------------------------- MODULE Spec2Model ----------------------------
(***************************************************************************)
(* pgxhelper: a DBHelper over a pgx connection pool.  The helper resolves  *)
(* the execution target of every Get/Select/Exec from the context of the   *)
(* call (Querier), and WithinTransaction runs a work function with a       *)
(* derived context that carries a freshly begun transaction.               *)
(*                                                                         *)
(* The database engine, the pgx transaction handle and the scany row       *)
(* mapper are the collaborators the helper calls; they are modelled by     *)
(* what the calls in the source observe of them: a table with a unique     *)
(* key, transactions with a private write set, PostgreSQL's "aborted       *)
(* transaction" state, and pgx.BeginTxFunc's commit/rollback protocol.     *)
(***************************************************************************)
EXTENDS Integers, Sequences, FiniteSets, TLC

\* ------------------------------------------------------------------ bounds
\* transactions begun in one run (handles are numbered 1..MaxTx)
MaxTx == 2
\* context values allocated in one run (context.Background() included)
MaxCtx == 3

\* goroutines calling the helper concurrently
Callers == {"g1", "g2"}
\* primary keys used by the statements (the ids the tests insert)
Keys == {"111", "222"}

\* ------------------------------------------------------------------ errors
\* An error is the chain of its messages, outermost first; nil is the
\* empty chain.  fmt.Errorf("p: %w", err) puts p in front of err's chain.
Nil == <<>>
Errorf(prefix, err) == <<prefix>> \o err
\* errors.Is(err, target): with a nil on either side, whether both are nil;
\* else whether target is err or an error err wraps
ErrorsIs(err, target) ==
    IF err = Nil \/ target = Nil THEN err = target
    ELSE \E i \in 1..Len(err) : SubSeq(err, i, Len(err)) = target

ErrTxClosed == <<"tx is closed">>
ErrTxCommitRollback == <<"commit unexpectedly resulted in rollback">>
ErrNoRows == <<"no rows in result set">>
ErrQueryNotFound == <<"query not found">>
ErrUniqueViolation == <<"SQLSTATE 23505">>
ErrInFailedTx == <<"SQLSTATE 25P02">>
ErrBegin == <<"begin failed">>
ErrCommit == <<"commit failed">>
ErrRollback == <<"rollback failed">>
ErrParse == <<"cannot parse connection string">>
ErrCreate == <<"cannot create pool">>
ErrPing == <<"ping failed">>
ErrCatalogQuery == <<"catalog query failed">>
ErrClosedPool == <<"closed pool">>
\* errors a work function may return of its own
ErrWork == <<"work failed">>

\* ------------------------------------------------------------------ state
VARIABLES
    pool,      \* DBHelper.pool: "nil", or a pool that is "pool" (open) or "closed"
    conn,      \* the last Connect, Ping or Close that returned, and its result
    ctxs,      \* the context values allocated so far: node i is context i
    rows,      \* the committed rows of the table
    txs,       \* tx id -> the handle and the engine's state of the transaction
    nextTx,    \* the id the next begun transaction gets
    call,      \* per goroutine: where it is and the contexts it holds
    last,      \* the last call of the helper: its context, target and result
    panicked   \* the process died of a panic

vars == <<pool, conn, ctxs, rows, txs, nextTx, call, last, panicked>>

\* ---------------------------------------------------------------- contexts
\* context.Background()
Background == 1
NoTx == 0
TxKey == "txKey"
OtherKey == "other"

\* ctx.Value(key): the value of the innermost node of the chain holding key
RECURSIVE Value(_, _, _)
Value(h, c, key) ==
    IF c = 0 THEN NoTx
    ELSE IF h[c].key = key THEN h[c].val
    ELSE Value(h, h[c].parent, key)

\* context.WithValue(ctx, key, val): a new node whose parent is ctx
WithValue(h, c, key, val) == Append(h, [parent |-> c, key |-> key, val |-> val])

\* A faulty attach that stores the transaction in the parent context itself
\* and hands out an alias of it.
ctxWithTxInPlace(h, c, tx) ==
    Append([h EXCEPT ![c] = [parent |-> h[c].parent, key |-> TxKey, val |-> tx]],
           [parent |-> c, key |-> OtherKey, val |-> 0])

\* ctxWithTx(ctx, tx): the heap after the call; the context returned is its
\* last node
ctxWithTx(h, c, tx) == WithValue(h, c, TxKey, tx)

\* ctxGetTx(ctx): the transaction the context carries, or nil
ctxGetTx(h, c) == Value(h, c, TxKey)

\* ----------------------------------------------------------------- targets
PoolQ == [kind |-> "pool", tx |-> NoTx]
TxQ(t) == [kind |-> "tx", tx |-> t]
NoQ == [kind |-> "none", tx |-> NoTx]

\* A faulty resolver that keeps the target of the previous operation.
QuerierCached(h, c) ==
    IF last.target.kind # "none" THEN last.target
    ELSE IF ctxGetTx(h, c) # NoTx THEN TxQ(ctxGetTx(h, c)) ELSE PoolQ

\* A faulty resolver that ignores the context.
QuerierPoolOnly(h, c) == PoolQ

\* DBHelper.Querier(ctx)
Querier(h, c) ==
    IF ctxGetTx(h, c) # NoTx THEN TxQ(ctxGetTx(h, c)) ELSE PoolQ

\* ------------------------------------------------------------------ engine
\* A row of the table: its unique key and its payload.  The callers of this
\* model write as payload the transaction carried by the context they passed
\* to Exec (NoTx: none), so a row tells through which context it was written.
Row(k, via) == [id |-> k, via |-> via]
Ids(rs) == {r.id : r \in rs}
TxIds == 1..MaxTx
\* status and writes (the rows written and not discarded) are the engine's,
\* closed is the handle's
FreshTx == [status |-> "none", closed |-> FALSE, writes |-> {}]

\* what a statement run on target q sees: the committed rows and, inside an
\* open transaction, that transaction's own writes
Visible(q) ==
    rows \cup (IF q.kind = "tx" /\ txs[q.tx].status = "open"
               THEN txs[q.tx].writes ELSE {})

\* an INSERT of key k waits while another unfinished transaction holds an
\* uncommitted row with that key
Blocked(q, k) ==
    /\ q.kind # "none"
    /\ \E t \in TxIds : /\ t # q.tx
                        /\ txs[t].status \in {"open", "aborted"}
                        /\ k \in Ids(txs[t].writes)

\* target.Exec(ctx, INSERT ..., k, via): the command tag's row count, the
\* error, and the table and transactions afterwards; a closed pool gives no
\* connection and answers with its closed-pool error
EngineExec(q, k, via) ==
    IF q.kind = "tx" THEN
        IF txs[q.tx].closed THEN
            [tag |-> 0, err |-> ErrTxClosed, rows |-> rows, txs |-> txs]
        ELSE IF txs[q.tx].status = "aborted" THEN
            [tag |-> 0, err |-> ErrInFailedTx, rows |-> rows, txs |-> txs]
        ELSE IF k \in Ids(Visible(q)) THEN
            [tag |-> 0, err |-> ErrUniqueViolation, rows |-> rows,
             txs |-> [txs EXCEPT ![q.tx].status = "aborted"]]
        ELSE
            [tag |-> 1, err |-> Nil, rows |-> rows,
             txs |-> [txs EXCEPT ![q.tx].writes = @ \cup {Row(k, via)}]]
    ELSE
        IF pool = "closed" THEN
            [tag |-> 0, err |-> ErrClosedPool, rows |-> rows, txs |-> txs]
        ELSE IF k \in Ids(rows) THEN
            [tag |-> 0, err |-> ErrUniqueViolation, rows |-> rows, txs |-> txs]
        ELSE
            [tag |-> 1, err |-> Nil, rows |-> rows \cup {Row(k, via)}, txs |-> txs]

\* target.Query(ctx, SELECT ... WHERE id = ANY(ks)): the rows matched, or the
\* error
EngineQuery(q, ks) ==
    IF q.kind = "pool" /\ pool = "closed" THEN [found |-> {}, err |-> ErrClosedPool]
    ELSE IF q.kind = "tx" /\ txs[q.tx].closed THEN [found |-> {}, err |-> ErrTxClosed]
    ELSE IF q.kind = "tx" /\ txs[q.tx].status = "aborted" THEN
        [found |-> {}, err |-> ErrInFailedTx]
    ELSE [found |-> {r \in Visible(q) : r.id \in ks}, err |-> Nil]

\* scanAPI.Get(ctx, target, dest, query, k): the row mapper's single-row
\* contract; zero rows is its no-rows error, which wraps pgx.ErrNoRows
ScanNoRows == Errorf("scanning one", ErrNoRows)
scanAPIGet(q, k) ==
    LET e == EngineQuery(q, {k}) IN
    IF e.err # Nil THEN
        [dest |-> {}, err |-> Errorf("scany: query one result row", e.err),
         found |-> 0, cause |-> e.err]
    ELSE IF e.found = {} THEN
        [dest |-> {}, err |-> ScanNoRows, found |-> 0, cause |-> Nil]
    ELSE [dest |-> e.found, err |-> Nil, found |-> Cardinality(e.found), cause |-> Nil]

\* scanAPI.Select(ctx, target, dest, query, ks): zero or more rows
scanAPISelect(q, ks) ==
    LET e == EngineQuery(q, ks) IN
    IF e.err # Nil THEN
        [dest |-> {}, err |-> Errorf("scany: query multiple result rows", e.err),
         found |-> 0, cause |-> e.err]
    ELSE [dest |-> e.found, err |-> Nil, found |-> Cardinality(e.found), cause |-> Nil]

\* ------------------------------------------------------ transaction handle
\* tx.Rollback(ctx): a closed handle answers ErrTxClosed; otherwise the
\* handle is closed whether or not the ROLLBACK got through (a failed
\* rollback kills the connection, which ends the transaction on the server)
TxRollback(tx, fails) ==
    IF tx.closed THEN [tx |-> tx, err |-> ErrTxClosed]
    ELSE [tx |-> [status |-> "rolledback", closed |-> TRUE, writes |-> {}],
          err |-> IF fails THEN ErrRollback ELSE Nil]

\* how the COMMIT of tx.Commit goes: it gets through ("ok"), it fails before
\* the server has applied it ("failed"), or the server applies it and the
\* reply does not arrive (connection lost, context cancelled: "reply_lost")
CommitOutcomes == {"ok", "failed", "reply_lost"}

\* tx.Commit(ctx): the handle is closed whatever the COMMIT does.  A server
\* answers the COMMIT of an aborted transaction with ROLLBACK; one that did
\* not get the COMMIT rolls back when the connection dies.  A COMMIT whose
\* reply is lost has committed an open transaction, and Commit still returns
\* the error.
TxCommit(tx, cm) ==
    IF tx.closed THEN [tx |-> tx, err |-> ErrTxClosed]
    ELSE IF cm = "failed" THEN
        [tx |-> [status |-> "rolledback", closed |-> TRUE, writes |-> {}],
         err |-> ErrCommit]
    ELSE IF tx.status = "aborted" THEN
        [tx |-> [status |-> "rolledback", closed |-> TRUE, writes |-> {}],
         err |-> IF cm = "reply_lost" THEN ErrCommit ELSE ErrTxCommitRollback]
    ELSE [tx |-> [tx EXCEPT !.closed = TRUE, !.status = "committed"],
          err |-> IF cm = "reply_lost" THEN ErrCommit ELSE Nil]

\* A faulty runner that commits whatever the work function returned.
beginFuncExecAlwaysCommit(tx, fErr, rbFails, cm) ==
    LET c == TxCommit(tx, cm) IN
    [tx |-> c.tx, err |-> IF fErr # Nil THEN fErr ELSE c.err, mech |-> c.err]

\* pgx.BeginTxFunc after a successful begin: fn returned fErr.  An error is
\* followed by a rollback whose own error is dropped; no error by a commit.
\* The deferred rollback then finds the handle closed, and only an error of
\* it other than ErrTxClosed would replace the result.  mech is the error of
\* that first rollback or commit.
beginFuncExec(tx, fErr, rbFails, cm) ==
    LET first == IF fErr # Nil THEN TxRollback(tx, rbFails) ELSE TxCommit(tx, cm)
        body == IF fErr # Nil THEN fErr ELSE first.err
        deferred == TxRollback(first.tx, rbFails)
    IN  [tx |-> deferred.tx,
         err |-> IF deferred.err # Nil /\ ~ErrorsIs(deferred.err, ErrTxClosed)
                 THEN deferred.err ELSE body,
         mech |-> first.err]

\* ------------------------------------------------------------------ helper
\* the result of one Get/Select/Exec: the target it ran on (NoQ: none), the
\* engine's answer (tag, cause), what the helper returned (n, err, dest) and
\* the table and transactions afterwards
Result(q, tag, cause, n, err, dest, rs, ts) ==
    [target |-> q, tag |-> tag, cause |-> cause, n |-> n, err |-> err,
     dest |-> dest, rows |-> rs, txs |-> ts]

\* A faulty Get that wraps the row mapper's error like Exec does.
GetWrapped(h, c, k) ==
    LET q == Querier(h, c)
        s == scanAPIGet(q, k)
    IN  Result(q, s.found, s.cause, 0,
               IF s.err # Nil THEN Errorf("get failed", s.err) ELSE Nil,
               s.dest, rows, txs)

\* DBHelper.Get(ctx, dest, query, k)
Get(h, c, k) ==
    LET q == Querier(h, c)
        s == scanAPIGet(q, k)
    IN  Result(q, s.found, s.cause, 0, s.err, s.dest, rows, txs)

\* DBHelper.Select(ctx, dest, query, ks)
Select(h, c, ks) ==
    LET q == Querier(h, c)
        s == scanAPISelect(q, ks)
    IN  Result(q, s.found, s.cause, 0, s.err, s.dest, rows, txs)

\* A faulty Exec that returns the engine's error as it is.
ExecUnwrapped(h, c, k, via) ==
    LET q == Querier(h, c)
        e == EngineExec(q, k, via)
    IN  Result(q, e.tag, e.err, e.tag, e.err, {}, e.rows, e.txs)

\* DBHelper.Exec(ctx, query, k, via)
Exec(h, c, k, via) ==
    LET q == Querier(h, c)
        e == EngineExec(q, k, via)
    IN  IF e.err # Nil
        THEN Result(q, e.tag, e.err, 0, Errorf("exec failed", e.err), {}, e.rows, e.txs)
        ELSE Result(q, e.tag, e.err, e.tag, Nil, {}, e.rows, e.txs)

\* ------------------------------------------------------------ named queries
\* the queries of set "test"
TestSet == "test"
TestQueries == {"CreateTableCustomers", "InsertCustomer", "GetCustomer", "GetCustomers"}

\* sqlSet.Get(setID, queryID): the query's text, or the query-not-found error
sqlSetGet(setID, queryID) ==
    IF setID = TestSet /\ queryID \in TestQueries
    THEN [query |-> queryID, err |-> Nil]
    ELSE [query |-> "", err |-> ErrQueryNotFound]

NotFound(err, n) == Result(NoQ, 0, Nil, n, err, {}, rows, txs)

\* sqlsetpgxhelper.DBHelper.Get(ctx, dest, setID, queryID, k)
SqlsetGet(h, c, setID, queryID, k) ==
    LET g == sqlSetGet(setID, queryID) IN
    IF g.err # Nil THEN NotFound(g.err, 0) ELSE Get(h, c, k)

\* sqlsetpgxhelper.DBHelper.Select(ctx, dest, setID, queryID, ks)
SqlsetSelect(h, c, setID, queryID, ks) ==
    LET g == sqlSetGet(setID, queryID) IN
    IF g.err # Nil THEN NotFound(g.err, 0) ELSE Select(h, c, ks)

\* A faulty Exec that runs the statement although the lookup failed.
SqlsetExecIgnoresLookup(h, c, setID, queryID, k, via) ==
    LET g == sqlSetGet(setID, queryID)
        r == Exec(h, c, k, via)
    IN  IF g.err # Nil THEN [r EXCEPT !.n = 0, !.err = g.err] ELSE r

\* sqlsetpgxhelper.DBHelper.Exec(ctx, setID, queryID, k, via)
SqlsetExec(h, c, setID, queryID, k, via) ==
    LET g == sqlSetGet(setID, queryID) IN
    IF g.err # Nil THEN NotFound(g.err, 0) ELSE Exec(h, c, k, via)

\* ----------------------------------------------------------------- connect
\* what pgxpool.ParseConfig and pgxpool.NewWithConfig may do
ConnectOutcomes == {"parse_error", "create_error", "created"}

\* A faulty Connect that assigns the pool only when its creation succeeded.
ConnectKeepsPool(d, outcome) ==
    IF outcome = "parse_error" THEN
        [pool |-> d, err |-> Errorf("parse database config failure", ErrParse)]
    ELSE IF outcome = "create_error" THEN
        [pool |-> d, err |-> Errorf("database pool creation failure", ErrCreate)]
    ELSE [pool |-> "pool", err |-> Nil]

\* DBHelper.Connect(connStr, timeout) down to the call of Ping, on a helper
\* whose pool field is d: the field afterwards and the error returned; with
\* no error Connect goes on to return d.Ping(ctx)
Connect(d, outcome) ==
    IF outcome = "parse_error" THEN
        [pool |-> d, err |-> Errorf("parse database config failure", ErrParse)]
    ELSE IF outcome = "create_error" THEN
        [pool |-> "nil", err |-> Errorf("database pool creation failure", ErrCreate)]
    ELSE [pool |-> "pool", err |-> Nil]

\* DBHelper.Ping, its first half: d.pool.Ping(ctx) on the pool field as it
\* is read now (p).  A nil pool is a nil dereference; a closed pool answers
\* with its closed-pool error.
PingPool(p, fails) ==
    LET e == IF p = "closed" THEN ErrClosedPool ELSE IF fails THEN ErrPing ELSE Nil
    IN  [panic |-> p = "nil",
         err |-> IF p # "nil" /\ e # Nil THEN Errorf("database ping error", e) ELSE Nil]

\* DBHelper.Ping, its second half: d.pool.Query(ctx, ..., d.pool.Config()...)
\* on the pool field as it is read again after the ping
PingQuery(p, fails) ==
    LET e == IF p = "closed" THEN ErrClosedPool
             ELSE IF fails THEN ErrCatalogQuery ELSE Nil
    IN  [panic |-> p = "nil",
         err |-> IF p # "nil" /\ e # Nil THEN Errorf("database query failure", e) ELSE Nil]

\* DBHelper.Close(): d.pool.Close() is a nil dereference on a nil pool; else
\* the pool is closed (closing a closed pool does nothing) and the field
\* keeps pointing to it
Close(p) == [panic |-> p = "nil", pool |-> IF p = "nil" THEN p ELSE "closed"]

\* pool.BeginTx as pgx.BeginTxFunc calls it
PoolBeginTx(p, fails) ==
    IF p = "closed" THEN ErrClosedPool ELSE IF fails THEN ErrBegin ELSE Nil

\* ------------------------------------------------------------ transactions
\* A faulty guard that lets a context with a transaction through.
requireNoTransactionSkipped(h, c) == FALSE

\* DBHelper.requireNoTransaction(ctx): TRUE when it panics
requireNoTransaction(h, c) == ctxGetTx(h, c) # NoTx

\* the pgx.TxOptions WithinTransaction begins with: the first of opt, else
\* the zero value
DefaultTxOptions == "default"
TxOptions(opt) == IF Len(opt) > 0 THEN opt[1] ELSE DefaultTxOptions

\* A faulty WithinTransaction that wraps whatever the runner returned.
WithinTransactionWrapped(tx, fErr, rbFails, cm) ==
    LET r == beginFuncExec(tx, fErr, rbFails, cm) IN
    [r EXCEPT !.err = IF @ # Nil THEN Errorf("transaction failed", @) ELSE Nil]

\* DBHelper.WithinTransaction from the return of fn on: what pgx.BeginTxFunc
\* returns is returned as it is
WithinTransactionReturn(tx, fErr, rbFails, cm) ==
    beginFuncExec(tx, fErr, rbFails, cm)

\* ------------------------------------------------------------------- state
\* a goroutine: pc is "idle", "work" (inside the work function of its
\* WithinTransaction), "ping" (in Ping, before d.pool.Ping) or "query" (in
\* Ping, before d.pool.Query); op is the call it is in; ctx is the context it
\* holds, wctx the derived context its work function was handed, tx the
\* transaction WithinTransaction began, wrote the rows its work function has
\* inserted through the derived context
Idle ==
    [pc |-> "idle", op |-> "none", ctx |-> Background, wctx |-> 0, tx |-> NoTx,
     wrote |-> {}]

\* the record of a Connect, Ping or Close that returned: the call, how it
\* went, the error it returned, and whether d.pool.Ping was called
NoConn == [op |-> "none", outcome |-> "none", err |-> Nil, pinged |-> FALSE]

\* the record of a call: op, ctx and queryID are what was called; target,
\* tag and cause the target a Get/Select/Exec ran on and the engine's answer;
\* n, err and dest what the call returned; opt, tx, fErr, mech and wrote, of
\* a WithinTransaction, the options it began with, the transaction it began,
\* what the work function returned, the error of its rollback or commit, and
\* the rows the work function had inserted through the derived context
NoCall ==
    [op |-> "none", ctx |-> 0, queryID |-> "",
     target |-> NoQ, tag |-> 0, cause |-> Nil, n |-> 0, err |-> Nil, dest |-> {},
     opt |-> "", tx |-> NoTx, fErr |-> Nil, mech |-> Nil, wrote |-> {}]

\* the record of a Get/Select/Exec with result r
Record(op, c, queryID, r) ==
    [op |-> op, ctx |-> c, queryID |-> queryID,
     target |-> r.target, tag |-> r.tag, cause |-> r.cause, n |-> r.n,
     err |-> r.err, dest |-> r.dest, opt |-> "", tx |-> NoTx, fErr |-> Nil,
     mech |-> Nil, wrote |-> {}]

\* the state after New(): no pool yet, an empty table, only
\* context.Background()
Init ==
    /\ pool = "nil"
    /\ conn = NoConn
    /\ ctxs = <<[parent |-> 0, key |-> "", val |-> 0]>>
    /\ rows = {}
    /\ txs = [t \in TxIds |-> FreshTx]
    /\ nextTx = 1
    /\ call = [a \in Callers |-> Idle]
    /\ last = NoCall
    /\ panicked = FALSE

\* the state after New() and a successful Connect
Connected ==
    /\ pool = "pool"
    /\ conn = [op |-> "Connect", outcome |-> "ok", err |-> Nil, pinged |-> TRUE]
    /\ ctxs = <<[parent |-> 0, key |-> "", val |-> 0]>>
    /\ rows = {}
    /\ txs = [t \in TxIds |-> FreshTx]
    /\ nextTx = 1
    /\ call = [a \in Callers |-> Idle]
    /\ last = NoCall
    /\ panicked = FALSE

\* goroutine a is free to call a statement or WithinTransaction: the
\* process runs and a is in no Connect or Ping
Ready(a) == ~panicked /\ call[a].pc \in {"idle", "work"}

\* the contexts goroutine a can pass to a call: the one it holds and, inside
\* its work function, the derived one it was handed
HeldCtx(a) ==
    IF call[a].pc = "work" THEN {call[a].wctx, call[a].ctx} ELSE {call[a].ctx}

\* the payload a caller writes: the transaction the context it passes carries
Via(c) == Value(ctxs, c, TxKey)

\* ----------------------------------------------------------------- actions
\* db.Connect(connStr, timeout) down to the call of Ping: ParseConfig,
\* NewWithConfig and the assignment of d.pool.  An error returns; else the
\* goroutine goes on into Ping.
CallConnect(a, outcome) ==
    /\ ~panicked
    /\ call[a].pc = "idle"
    /\ LET r == Connect(pool, outcome) IN
        /\ pool' = r.pool
        /\ IF r.err # Nil
           THEN /\ conn' = [op |-> "Connect", outcome |-> outcome, err |-> r.err,
                            pinged |-> FALSE]
                /\ call' = call
           ELSE /\ conn' = conn
                /\ call' = [call EXCEPT ![a].pc = "ping", ![a].op = "Connect"]
    /\ UNCHANGED <<ctxs, rows, txs, nextTx, last, panicked>>

\* db.Ping(ctx) called by itself
CallPing(a) ==
    /\ ~panicked
    /\ call[a].pc = "idle"
    /\ call' = [call EXCEPT ![a].pc = "ping", ![a].op = "Ping"]
    /\ UNCHANGED <<pool, conn, ctxs, rows, txs, nextTx, last, panicked>>

\* Ping reads d.pool and pings it
StepPingPool(a, fails) ==
    /\ ~panicked
    /\ call[a].pc = "ping"
    /\ LET r == PingPool(pool, fails) IN
        IF r.panic THEN
            /\ panicked' = TRUE
            /\ UNCHANGED <<conn, call>>
        ELSE IF r.err # Nil THEN
            /\ conn' = [op |-> call[a].op, outcome |-> "ping_error", err |-> r.err,
                        pinged |-> TRUE]
            /\ call' = [call EXCEPT ![a] = Idle]
            /\ UNCHANGED panicked
        ELSE
            /\ call' = [call EXCEPT ![a].pc = "query"]
            /\ UNCHANGED <<conn, panicked>>
    /\ UNCHANGED <<pool, ctxs, rows, txs, nextTx, last>>

\* Ping reads d.pool again, queries the catalog and returns
StepPingQuery(a, fails) ==
    /\ ~panicked
    /\ call[a].pc = "query"
    /\ LET r == PingQuery(pool, fails) IN
        IF r.panic THEN
            /\ panicked' = TRUE
            /\ UNCHANGED <<conn, call>>
        ELSE
            /\ conn' = [op |-> call[a].op,
                        outcome |-> IF r.err # Nil THEN "query_error" ELSE "ok",
                        err |-> r.err, pinged |-> TRUE]
            /\ call' = [call EXCEPT ![a] = Idle]
            /\ UNCHANGED panicked
    /\ UNCHANGED <<pool, ctxs, rows, txs, nextTx, last>>

\* db.Close()
CallClose(a) ==
    /\ ~panicked
    /\ call[a].pc = "idle"
    /\ LET r == Close(pool) IN
        IF r.panic THEN
            /\ panicked' = TRUE
            /\ UNCHANGED <<pool, conn>>
        ELSE
            /\ pool' = r.pool
            /\ conn' = [op |-> "Close", outcome |-> "ok", err |-> Nil,
                        pinged |-> FALSE]
            /\ UNCHANGED panicked
    /\ UNCHANGED <<ctxs, rows, txs, nextTx, call, last>>

\* the step of a Get/Select/Exec of goroutine a with result r, w being the
\* rows it asked to insert; a statement that reaches a nil pool is a nil
\* dereference
Apply(op, a, c, queryID, r, w) ==
    IF r.target.kind = "pool" /\ pool = "nil" THEN
        /\ panicked' = TRUE
        /\ UNCHANGED <<pool, conn, ctxs, rows, txs, nextTx, call, last>>
    ELSE
        /\ rows' = r.rows
        /\ txs' = r.txs
        /\ last' = Record(op, c, queryID, r)
        /\ call' = IF call[a].pc = "work" /\ c # call[a].ctx /\ r.err = Nil
                   THEN [call EXCEPT ![a].wrote = @ \cup w] ELSE call
        /\ UNCHANGED <<pool, conn, ctxs, nextTx, panicked>>

\* db.Get(c, &dest, "SELECT ... WHERE id = $1", k)
CallGet(a, c, k) ==
    /\ Ready(a)
    /\ c \in HeldCtx(a)
    /\ Apply("Get", a, c, "", Get(ctxs, c, k), {})

\* db.Select(c, &dest, "SELECT ... WHERE id = ANY($1)", ks)
CallSelect(a, c, ks) ==
    /\ Ready(a)
    /\ c \in HeldCtx(a)
    /\ Apply("Select", a, c, "", Select(ctxs, c, ks), {})

\* db.Exec(c, "INSERT ...", k, via); a statement that has to wait for another
\* transaction does not return yet
CallExec(a, c, k) ==
    /\ Ready(a)
    /\ c \in HeldCtx(a)
    /\ LET r == Exec(ctxs, c, k, Via(c)) IN
        /\ r.cause = Nil => ~Blocked(r.target, k)
        /\ Apply("Exec", a, c, "", r, {Row(k, Via(c))})

\* the named-query variant: db.Get(c, &dest, setID, queryID, k)
CallSqlsetGet(a, c, queryID, k) ==
    /\ Ready(a)
    /\ c \in HeldCtx(a)
    /\ Apply("SqlsetGet", a, c, queryID, SqlsetGet(ctxs, c, TestSet, queryID, k), {})

\* the named-query variant: db.Select(c, &dest, setID, queryID, ks)
CallSqlsetSelect(a, c, queryID, ks) ==
    /\ Ready(a)
    /\ c \in HeldCtx(a)
    /\ Apply("SqlsetSelect", a, c, queryID,
             SqlsetSelect(ctxs, c, TestSet, queryID, ks), {})

\* the named-query variant: db.Exec(c, setID, queryID, k, via)
CallSqlsetExec(a, c, queryID, k) ==
    /\ Ready(a)
    /\ c \in HeldCtx(a)
    /\ LET r == SqlsetExec(ctxs, c, TestSet, queryID, k, Via(c)) IN
        /\ (r.target.kind # "none" /\ r.cause = Nil) => ~Blocked(r.target, k)
        /\ Apply("SqlsetExec", a, c, queryID, r, {Row(k, Via(c))})

\* a work function derives a context from the one it was handed
\* (context.WithValue, WithTimeout, ...) and goes on with it
CallWithValue(a) ==
    /\ ~panicked
    /\ Len(ctxs) < MaxCtx
    /\ call[a].pc = "work"
    /\ ctxs' = WithValue(ctxs, call[a].wctx, OtherKey, 0)
    /\ call' = [call EXCEPT ![a].wctx = Len(ctxs) + 1]
    /\ UNCHANGED <<pool, conn, rows, txs, nextTx, last, panicked>>

\* db.WithinTransaction(c, fn, opt...) up to the call of fn: the guard, the
\* options, then pool.BeginTx, then fn(ctxWithTx(c, tx)).  A goroutine
\* inside its work function calls it with the derived context.
WithinTransaction(a, c, opt, beginFails) ==
    /\ Ready(a)
    /\ c = IF call[a].pc = "work" THEN call[a].wctx ELSE call[a].ctx
    /\ IF requireNoTransaction(ctxs, c) THEN
            /\ panicked' = TRUE
            /\ last' = [NoCall EXCEPT !.op = "WithinTransaction", !.ctx = c]
            /\ UNCHANGED <<pool, conn, ctxs, rows, txs, nextTx, call>>
       ELSE IF pool = "nil" THEN
            /\ panicked' = TRUE
            /\ UNCHANGED <<pool, conn, ctxs, rows, txs, nextTx, call, last>>
       ELSE IF PoolBeginTx(pool, beginFails) # Nil THEN
            /\ last' = [NoCall EXCEPT !.op = "WithinTransaction", !.ctx = c,
                                      !.opt = TxOptions(opt),
                                      !.err = PoolBeginTx(pool, beginFails)]
            /\ UNCHANGED <<pool, conn, ctxs, rows, txs, nextTx, call, panicked>>
       ELSE
            /\ nextTx <= MaxTx
            /\ Len(ctxs) < MaxCtx
            /\ last' = [NoCall EXCEPT !.op = "WithinTransaction", !.ctx = c,
                                      !.opt = TxOptions(opt), !.tx = nextTx]
            /\ txs' = [txs EXCEPT ![nextTx] = [FreshTx EXCEPT !.status = "open"]]
            /\ nextTx' = nextTx + 1
            /\ ctxs' = ctxWithTx(ctxs, c, nextTx)
            /\ call' = [call EXCEPT ![a].pc = "work", ![a].wctx = Len(ctxs) + 1,
                                    ![a].tx = nextTx, ![a].wrote = {}]
            /\ UNCHANGED <<pool, conn, rows, panicked>>

\* the errors a work function returns: none, one of its own, or one a
\* failed Exec gave it
ErrExec == Errorf("exec failed", ErrUniqueViolation)
WorkErrors == {Nil, ErrWork, ErrExec}

\* fn returns fErr, and WithinTransaction finishes: rollback or commit (each
\* may fail), the deferred rollback, the return
WithinTransactionEnd(a, fErr, rbFails, cm) ==
    /\ ~panicked
    /\ call[a].pc = "work"
    /\ LET t == call[a].tx
           r == WithinTransactionReturn(txs[t], fErr, rbFails, cm)
       IN  /\ txs' = [txs EXCEPT ![t] = r.tx]
           /\ rows' = IF r.tx.status = "committed" THEN rows \cup r.tx.writes ELSE rows
           /\ last' = [NoCall EXCEPT !.op = "WithinTransactionEnd", !.ctx = call[a].ctx,
                                     !.tx = t, !.fErr = fErr, !.err = r.err,
                                     !.mech = r.mech, !.wrote = call[a].wrote]
    /\ call' = [call EXCEPT ![a].pc = "idle", ![a].wctx = 0, ![a].tx = NoTx,
                            ![a].wrote = {}]
    /\ UNCHANGED <<pool, conn, ctxs, nextTx, panicked>>

\* ---------------------------------------------------------- specifications
\* the options a caller passes to WithinTransaction: none, or one
OptInputs == {<<>>, <<"serializable">>}

\* the helper in use after a successful Connect: goroutines run statements
\* and transactions
Next ==
    \/ \E a \in Callers : \E c \in 1..Len(ctxs) : \E k \in Keys : CallGet(a, c, k)
    \/ \E a \in Callers : \E c \in 1..Len(ctxs) : CallSelect(a, c, Keys)
    \/ \E a \in Callers : \E c \in 1..Len(ctxs) : \E k \in Keys : CallExec(a, c, k)
    \/ \E a \in Callers : CallWithValue(a)
    \/ \E a \in Callers : \E c \in 1..Len(ctxs) : \E o \in OptInputs :
          \E b \in BOOLEAN : WithinTransaction(a, c, o, b)
    \/ \E a \in Callers : \E e \in WorkErrors : \E rb \in BOOLEAN :
          \E cm \in CommitOutcomes : WithinTransactionEnd(a, e, rb, cm)

Spec == Connected /\ [][Next]_vars

\* the named-query variant in use after a successful Connect
NextSqlset ==
    \/ \E a \in Callers : \E c \in 1..Len(ctxs) : \E k \in Keys :
          \E id \in {"GetCustomer", "Unknown"} : CallSqlsetGet(a, c, id, k)
    \/ \E a \in Callers : \E c \in 1..Len(ctxs) :
          \E id \in {"GetCustomers", "Unknown"} : CallSqlsetSelect(a, c, id, Keys)
    \/ \E a \in Callers : \E c \in 1..Len(ctxs) : \E k \in Keys :
          \E id \in {"InsertCustomer", "Unknown"} : CallSqlsetExec(a, c, id, k)
    \/ \E a \in Callers : \E c \in 1..Len(ctxs) : \E o \in OptInputs :
          \E b \in BOOLEAN : WithinTransaction(a, c, o, b)
    \/ \E a \in Callers : \E e \in WorkErrors : \E rb \in BOOLEAN :
          \E cm \in CommitOutcomes : WithinTransactionEnd(a, e, rb, cm)

SpecSqlset == Connected /\ [][NextSqlset]_vars

\* the helper from New() on: goroutines call Connect, Ping and Close, and
\* statements on the pool, in any interleaving
NextConnect ==
    \/ \E a \in Callers : \E o \in ConnectOutcomes : CallConnect(a, o)
    \/ \E a \in Callers : CallPing(a)
    \/ \E a \in Callers : \E f \in BOOLEAN : StepPingPool(a, f)
    \/ \E a \in Callers : \E f \in BOOLEAN : StepPingQuery(a, f)
    \/ \E a \in Callers : CallClose(a)
    \/ \E a \in Callers : \E k \in Keys : CallGet(a, Background, k)
    \/ \E a \in Callers : CallSelect(a, Background, Keys)
    \/ \E a \in Callers : \E k \in Keys : CallExec(a, Background, k)

SpecConnect == Init /\ [][NextConnect]_vars

\* ------------------------------------------------------------------ claims
\* the last call was a WithinTransaction that has returned
Ended == last.op = "WithinTransactionEnd"
StatementOps == {"Get", "Select", "Exec"}
SqlsetOps == {"SqlsetGet", "SqlsetSelect", "SqlsetExec"}

\* C1, as stated: when WithinTransaction returns, its transaction is closed;
\* if work returned no error it is committed and every row work wrote through
\* the derived context is in the table; if work returned an error it is
\* rolled back and none of those rows is.
C1_AsStated ==
    Ended =>
        /\ txs[last.tx].closed
        /\ last.fErr = Nil =>
              (txs[last.tx].status = "committed" /\ last.wrote \subseteq rows)
        /\ last.fErr # Nil =>
              (txs[last.tx].status = "rolledback" /\ last.wrote \cap rows = {})

\* C1, amended: when WithinTransaction returns, its transaction is closed,
\* committed or rolled back.  If work returned no error and WithinTransaction
\* returned nil it is committed and every row work wrote through the derived
\* context is in the table.  If work returned no error and WithinTransaction
\* returned an error, that error is the commit's, and the transaction is
\* either rolled back with none of those rows in the table or committed with
\* all of them in it (the COMMIT was applied and its reply lost); with the
\* commit-answered-rollback error it is rolled back.  If work returned an
\* error it is rolled back and none of those rows is in the table.
\* Afterwards too: the rows a committed transaction wrote stay in the table,
\* and no row written through a context carrying a transaction is in the
\* table unless that transaction committed.
C1_Atomic ==
    /\ Ended =>
        /\ txs[last.tx].closed
        /\ txs[last.tx].status \in {"committed", "rolledback"}
        /\ (last.fErr = Nil /\ last.err = Nil) =>
              (txs[last.tx].status = "committed" /\ last.wrote \subseteq rows)
        /\ (last.fErr = Nil /\ last.err # Nil) =>
              /\ last.err = last.mech
              /\ last.err \in {ErrCommit, ErrTxCommitRollback}
              /\ \/ (txs[last.tx].status = "rolledback" /\ last.wrote \cap rows = {})
                 \/ (/\ txs[last.tx].status = "committed"
                     /\ last.wrote \subseteq rows
                     /\ last.err = ErrCommit)
        /\ last.fErr # Nil =>
              (txs[last.tx].status = "rolledback" /\ last.wrote \cap rows = {})
    /\ \A t \in TxIds : txs[t].status = "committed" => txs[t].writes \subseteq rows
    /\ \A r \in rows : r.via # NoTx => txs[r.via].status = "committed"

\* two rows inserted in one WithinTransaction, committed
C1_Witness ==
    /\ Ended
    /\ last.fErr = Nil
    /\ last.err = Nil
    /\ Cardinality(last.wrote) = 2
    /\ last.wrote \subseteq rows

\* C2: a WithinTransaction called with a context that carries a transaction
\* panics, whatever the options and the work function, and that step begins
\* no transaction, allocates no context, starts no work function and returns
\* no error.
C2_NestedPanics ==
    [][(/\ last' # last
        /\ last'.op = "WithinTransaction"
        /\ Value(ctxs, last'.ctx, TxKey) # NoTx)
       => (/\ panicked'
           /\ last'.err = Nil
           /\ last'.opt = ""
           /\ UNCHANGED <<txs, nextTx, ctxs, call, rows>>)]_vars

\* a work function called WithinTransaction with its derived context
C2_Witness ==
    /\ panicked
    /\ last.op = "WithinTransaction"
    /\ Value(ctxs, last.ctx, TxKey) # NoTx
    /\ \E a \in Callers : call[a].pc = "work" /\ call[a].wctx = last.ctx

\* the nodes of the chain of context c
RECURSIVE Chain(_, _)
Chain(h, c) == IF c = 0 THEN {} ELSE {c} \cup Chain(h, h[c].parent)
TxNodes(h, c) == {n \in Chain(h, c) : h[n].key = TxKey}

\* C3: a context with no transaction attached anywhere in its chain resolves
\* to the pool; a context made by ctxWithTx, and every context derived from
\* it, resolves to the attached transaction; and no step changes what an
\* existing context resolves to.
C3_Resolve ==
    /\ [](\A c \in 1..Len(ctxs) :
            /\ TxNodes(ctxs, c) = {} => Querier(ctxs, c) = PoolQ
            /\ \A n \in TxNodes(ctxs, c) : Querier(ctxs, c) = TxQ(ctxs[n].val))
    /\ [][ctxs' # ctxs =>
            \A c \in 1..Len(ctxs) : Querier(ctxs', c) = Querier(ctxs, c)]_vars

\* a context derived from one that ctxWithTx made, its parent still resolving
\* to the pool
C3_Witness ==
    \E c \in 1..Len(ctxs) :
        /\ ctxs[c].key = OtherKey
        /\ ctxs[ctxs[c].parent].key = TxKey
        /\ Querier(ctxs, c) = TxQ(ctxs[ctxs[c].parent].val)
        /\ Querier(ctxs, ctxs[ctxs[c].parent].parent) = PoolQ

\* C4: WithinTransaction returns the error of the work function as it is,
\* also when the rollback fails; when the work function returns no error it
\* returns nil or the error of the commit; and a failed begin is returned
\* without the work function being started.
C4_ErrorUnchanged ==
    [][/\ last'.op = "WithinTransactionEnd" =>
            /\ last'.fErr # Nil => last'.err = last'.fErr
            /\ last'.fErr = Nil => (last'.err = last'.mech /\
                                    last'.err \in {Nil, ErrCommit, ErrTxCommitRollback})
       /\ (last' # last /\ last'.op = "WithinTransaction" /\ last'.err # Nil) =>
            /\ last'.err \in {ErrBegin, ErrClosedPool}
            /\ UNCHANGED <<txs, nextTx, ctxs, call, rows>>]_vars

\* the work function returned an error and the rollback failed
C4_Witness ==
    /\ Ended
    /\ last.fErr = ErrExec
    /\ last.mech = ErrRollback
    /\ last.err = ErrExec

\* C5: Exec returns the engine's row count and no error when the statement
\* succeeded (1 for the INSERT), and 0 with "exec failed" wrapped around the
\* engine's error when it failed; an INSERT on the pool either adds its row
\* and returns 1, or fails, returns 0 and leaves the table as it was, and
\* on an open pool it fails of the unique violation only; and no key is ever
\* in the table twice.
C5_ExecResult ==
    [][/\ (last'.op = "Exec" /\ last'.cause = Nil) =>
            (last'.n = last'.tag /\ last'.n = 1 /\ last'.err = Nil)
       /\ (last'.op = "Exec" /\ last'.cause # Nil) =>
            /\ last'.n = 0
            /\ last'.err = <<"exec failed">> \o last'.cause
            /\ ErrorsIs(last'.err, last'.cause)
       /\ (last' # last /\ last'.op = "Exec" /\ last'.target = PoolQ) =>
            \/ /\ rows' = rows
               /\ last'.n = 0
               /\ last'.err = Errorf("exec failed", last'.cause)
               /\ last'.cause # Nil
               /\ pool = "pool" => last'.cause = ErrUniqueViolation
            \/ /\ rows \subseteq rows'
               /\ Cardinality(rows' \ rows) = 1
               /\ last'.n = 1
               /\ last'.err = Nil
       /\ Cardinality(Ids(rows')) = Cardinality(rows')]_vars

\* the second INSERT of a key, outside a transaction
C5_Witness ==
    /\ last.op = "Exec"
    /\ last.target = PoolQ
    /\ last.n = 0
    /\ last.err = Errorf("exec failed", ErrUniqueViolation)
    /\ \E r \in rows : r.via = NoTx

\* C6: a named Get, Select or Exec whose query is not registered returns the
\* query-not-found error as the lookup gave it (Exec with count 0), resolves
\* no target, and leaves the table, the transactions and the destination as
\* they were.
C6_NotFound ==
    [][(/\ last' # last
        /\ last'.op \in SqlsetOps
        /\ last'.queryID \notin TestQueries)
       => /\ last'.err = ErrQueryNotFound
          /\ last'.n = 0
          /\ last'.target = NoQ
          /\ last'.dest = {}
          /\ rows' = rows
          /\ txs' = txs]_vars

\* an unregistered Exec issued with the derived context of a transaction
\* that has written a row
C6_Witness ==
    /\ last.op = "SqlsetExec"
    /\ last.queryID = "Unknown"
    /\ last.err = ErrQueryNotFound
    /\ \E a \in Callers : /\ call[a].pc = "work"
                          /\ last.ctx = call[a].wctx
                          /\ txs[call[a].tx].writes # {}

\* C7: when the engine ran the query and matched no row, Select returns no
\* error and an empty destination, and Get returns the row mapper's no-rows
\* error as it is, on the pool and in a transaction alike.
C7_ZeroRows ==
    /\ (last.op = "Select" /\ last.cause = Nil /\ last.tag = 0) =>
          (last.err = Nil /\ last.dest = {})
    /\ (last.op = "Get" /\ last.cause = Nil /\ last.tag = 0) =>
          /\ last.err = ScanNoRows
          /\ ErrorsIs(last.err, ErrNoRows)
          /\ last.dest = {}

\* a Get that matched no row inside an open transaction, the table not empty
C7_Witness ==
    /\ last.op = "Get"
    /\ last.target.kind = "tx"
    /\ txs[last.target.tx].status = "open"
    /\ last.err = ScanNoRows
    /\ rows # {}

\* C8: the step of a Connect whose connection string does not parse returns
\* the wrapped parse error, and the step of a Connect whose pool cannot be
\* created returns the wrapped creation error and leaves the pool field nil,
\* whatever it was before; neither calls Ping.  A Connect enters Ping only in
\* the step that created and assigned its pool, and a Connect that pinged
\* had neither failure.
C8_Connect ==
    [][/\ (conn' # conn /\ conn'.op = "Connect" /\ conn'.outcome = "parse_error") =>
            /\ conn'.err = Errorf("parse database config failure", ErrParse)
            /\ ~conn'.pinged
            /\ pool' = pool
            /\ call' = call
       /\ (conn' # conn /\ conn'.op = "Connect" /\ conn'.outcome = "create_error") =>
            /\ conn'.err = Errorf("database pool creation failure", ErrCreate)
            /\ ~conn'.pinged
            /\ pool' = "nil"
            /\ call' = call
       /\ \A a \in Callers :
            (call[a].pc = "idle" /\ call'[a].pc = "ping" /\ call'[a].op = "Connect")
                => (pool' = "pool" /\ conn' = conn)
       /\ (conn'.op = "Connect" /\ conn'.pinged) =>
            conn'.outcome \in {"ping_error", "query_error", "ok"}]_vars

\* the pool creation failed on a helper that had been connected and used,
\* while another goroutine is inside the Ping of its own Connect
C8_Witness ==
    /\ conn.op = "Connect"
    /\ conn.outcome = "create_error"
    /\ pool = "nil"
    /\ rows # {}
    /\ \E a \in Callers : call[a].pc = "query" /\ call[a].op = "Connect"

\* C9: every Get, Select and Exec runs on the target its own context
\* resolves to: the transaction the context carries, else the pool.  A row
\* written through a context without a transaction is in the table at once,
\* no step ever removes a row from the table, and a row written through a
\* context with a transaction is in the table only if that transaction
\* committed.
C9_FreshTarget ==
    [][/\ last'.op \in StatementOps =>
            last'.target = IF Value(ctxs', last'.ctx, TxKey) # NoTx
                           THEN TxQ(Value(ctxs', last'.ctx, TxKey)) ELSE PoolQ
       /\ (last' # last /\ last'.op = "Exec" /\ last'.err = Nil
             /\ Value(ctxs, last'.ctx, TxKey) = NoTx) =>
            \E r \in rows' \ rows : r.via = NoTx
       /\ rows \subseteq rows'
       /\ \A r \in rows' : r.via = NoTx \/ txs'[r.via].status = "committed"]_vars

\* an Exec with the original context, issued while every goroutine is inside
\* its work function, ran on the pool
C9_Witness ==
    /\ last.op = "Exec"
    /\ last.target = PoolQ
    /\ last.err = Nil
    /\ \A a \in Callers : call[a].pc = "work" /\ call[a].ctx = last.ctx
    /\ \E a \in Callers : txs[call[a].tx].writes # {}

\* C10: while goroutines are inside their work functions, the derived
\* context of each resolves to its own transaction, no two of them share a
\* transaction, the contexts they started from keep resolving to the pool,
\* a statement issued with a derived context runs on its owner's transaction,
\* and the step that ends one WithinTransaction closes that transaction only
\* and leaves every other as it was.
C10_Isolation ==
    /\ [](/\ \A a \in Callers : call[a].pc = "work" =>
             /\ Querier(ctxs, call[a].wctx) = TxQ(call[a].tx)
             /\ Querier(ctxs, call[a].ctx) = PoolQ
             /\ ~txs[call[a].tx].closed
             /\ \A b \in Callers \ {a} : call[b].pc = "work" => call[b].tx # call[a].tx
          /\ Querier(ctxs, Background) = PoolQ)
    /\ [][/\ \A a \in Callers :
               (last' # last /\ last'.op \in StatementOps /\ call[a].pc = "work"
                  /\ last'.ctx = call[a].wctx) => last'.target = TxQ(call[a].tx)
          /\ \A a \in Callers : (call[a].pc = "work" /\ call'[a].pc = "idle") =>
               \A t \in TxIds \ {call[a].tx} : txs'[t] = txs[t]
          /\ \A t \in TxIds : (~txs[t].closed /\ txs'[t].closed) =>
               \E a \in Callers : call[a].pc = "work" /\ call[a].tx = t
                                  /\ call'[a].pc = "idle"]_vars

\* two goroutines inside their work functions, each with rows written in its
\* own transaction
C10_Witness ==
    /\ \A a \in Callers : call[a].pc = "work" /\ txs[call[a].tx].writes # {}
    /\ \A a, b \in Callers : a # b => call[a].tx # call[b].tx
    /\ \A a \in Callers : Querier(ctxs, call[a].ctx) = PoolQ

=============================================================================
